---- MODULE Spec2Model ----
(***************************************************************************)
(* A model of aioisotp: the user-space ISO-TP transport engine             *)
(* (aioisotp/transports/userspace.py), the CAN demultiplexer               *)
(* (aioisotp/network.py) and the isotpserver text framer                   *)
(* (aioisotp/transports/isotpserver.py).                                   *)
(*                                                                         *)
(* Bytes are integers 0..255, byte strings are sequences of bytes.         *)
(* Every method of the source is an operator from a world record (the      *)
(* objects' fields) to the world record after the call; an exception is    *)
(* the field exc of the result, set at the statement that raises, with the *)
(* assignments made before that statement kept.                            *)
(***************************************************************************)
EXTENDS Integers, Sequences, FiniteSets, TLC

VARIABLES
    network,      \* ISOTPNetwork: block_size, st_min, max_wft, _rxids
    transports,   \* ISOTPTransport fields, per engine
    protocols,    \* what each protocol handler has been called with
    loop,         \* the event loop: call_soon and call_later handles
    bus,          \* the CAN bus: messages sent, messages not yet heard
    exc,          \* the exception the last callback ended with, or "none"
    writes,       \* per engine, the write() calls made so far
    fed,          \* per engine, the feed_data() calls made so far (when logged)
    script,       \* what the environment still has to do (payload lengths)
    wrapped       \* isotpserver: WrappedTransport and WrappedProtocol

vars == <<network, transports, protocols, loop, bus, exc, writes, fed,
          script, wrapped>>

-----------------------------------------------------------------------------
(* Bounds of the model. *)

MaxWrites == 2        \* write() calls per run of Spec
MaxInject == 2        \* frames the peer injects per run of Spec
MaxCloses == 1        \* close() calls per run of Spec
MaxErrors == 1        \* bus errors per run of Spec
MaxFeed == 5          \* frames fed per run of SpecRecv
MaxSmallLen == 23     \* SpecRoundTrip: every payload length 1..MaxSmallLen
MaxUnlimitedLen == 113  \* SpecRoundTrip: longest payload sent with block_size 0
MaxSends == 2         \* ISOTPNetwork.send calls per run of SpecSend
MaxPayloads == 2      \* payloads written per run of SpecFramer
MaxChunk == 3         \* largest chunk the socket hands to data_received
MaxNoise == 2         \* bytes the socket carries outside the brackets
MaxMsgs == 3          \* CAN messages the listener hears per run of SpecDemux
MaxFC == 3            \* flow control frames of the peer per run of SpecFC

-----------------------------------------------------------------------------
(* Python values and byte-string helpers. *)

PyNone == [kind |-> "None", val |-> 0]
PyInt(n) == [kind |-> "int", val |-> n]
PyTuple(n) == [kind |-> "tuple", val |-> n]

Min(a, b) == IF a < b THEN a ELSE b
Max(a, b) == IF a > b THEN a ELSE b

\* s[:n]
Take(s, n) == SubSeq(s, 1, Min(n, Len(s)))
\* s[n:]
Drop(s, n) == SubSeq(s, n + 1, Len(s))

\* struct.pack('>L', n), for n < 2^31
PackBE32(n) ==
    << (n \div 16777216) % 256, (n \div 65536) % 256, (n \div 256) % 256, n % 256 >>
\* struct.unpack_from('>L', data, 2)[0]
UnpackBE32(data) ==
    data[3] * 16777216 + data[4] * 65536 + data[5] * 256 + data[6]

-----------------------------------------------------------------------------
(* aioisotp/constants.py *)

SINGLE_FRAME == 0
FIRST_FRAME == 1
CONSECUTIVE_FRAME == 2
FLOW_CONTROL_FRAME == 3

CONTINUE_TO_SEND == 0
WAIT == 1
OVERFLOW == 2

-----------------------------------------------------------------------------
(* The engines of the model: two connections of one ISOTPNetwork, each the *)
(* other's peer (A transmits on the ID B receives on).                     *)

Engines == {"A", "B"}
Rxid(e) == IF e = "A" THEN 2024 ELSE 2016     \* 0x7E8, 0x7E0
Txid(e) == IF e = "A" THEN 2016 ELSE 2024
Peer(e) == IF e = "A" THEN "B" ELSE "A"

\* ISOTPTransport.__init__
NewTransport(bs, st, wft) ==
    [ block_size |-> bs, st_min |-> st, max_wft |-> wft,
      recv_buffer |-> << >>, recv_block_count |-> 0, recv_seq_no |-> 0,
      recv_size |-> PyNone,
      send_queue |-> << >>, send_seq_no |-> 0, send_block_count |-> 0,
      send_block_size |-> PyNone, send_st_min |-> PyNone,
      send_wf_count |-> 0, closing |-> FALSE ]

\* The protocol handler of the user: the model records its calls.
NewProtocol ==
    [ connection_made |-> 1, data_received |-> << >>, pause_writing |-> 0,
      resume_writing |-> 0, connection_lost |-> << >>, flow |-> << >> ]

Raise(w, name) == [w EXCEPT !.exc = name]

\* protocol.data_received(data)
data_received(w, e, data) ==
    [w EXCEPT !.pr[e].data_received = Append(@, data)]
\* protocol.pause_writing()
pause_writing(w, e) ==
    [w EXCEPT !.pr[e].pause_writing = @ + 1,
              !.pr[e].flow = Append(@, "pause")]
\* protocol.resume_writing()
resume_writing(w, e) ==
    [w EXCEPT !.pr[e].resume_writing = @ + 1,
              !.pr[e].flow = Append(@, "resume")]
\* protocol.connection_lost(exc)
connection_lost(w, e, x) == [w EXCEPT !.pr[e].connection_lost = Append(@, x)]

-----------------------------------------------------------------------------
(* ISOTPNetwork: the raw send function of the engines. *)

Message(id, data) ==
    [ arbitration_id |-> id, extended_id |-> (id > 2047), data |-> data,
      is_error_frame |-> FALSE, is_remote_frame |-> FALSE ]

\* send_raw with the extended-ID flag set from 0x7FF on
ISOTPNetwork_send_raw_ge(w, txid, data) ==
    LET msg == [Message(txid, data) EXCEPT !.extended_id = (txid >= 2047)] IN
    [w EXCEPT !.bus.sent = Append(@, msg),
              !.bus.heard = IF w.bus.receive_own_messages
                            THEN Append(@, msg) ELSE @]

\* ISOTPNetwork.send_raw: the message is put on the bus; a bus opened with
\* receive_own_messages hands it back to the listener later.
ISOTPNetwork_send_raw(w, txid, data) ==
    LET msg == Message(txid, data) IN
    [w EXCEPT !.bus.sent = Append(@, msg),
              !.bus.heard = IF w.bus.receive_own_messages
                            THEN Append(@, msg) ELSE @]

\* send_cb = lambda data: self.send_raw(txid, data)
send_raw(w, e, data) == ISOTPNetwork_send_raw(w, Txid(e), data)

-----------------------------------------------------------------------------
(* ISOTPTransport: the receiver. *)

\* ISOTPTransport._reset_recv
reset_recv(w, e) ==
    [w EXCEPT !.tr[e].recv_buffer = << >>,
              !.tr[e].recv_seq_no = 1,
              !.tr[e].recv_block_count = 0]

\* ISOTPTransport._end_recv: recv_buffer[:recv_size] is the whole buffer for
\* None and a TypeError for a tuple.
end_recv(w, e) ==
    LET t == w.tr[e] IN
    CASE t.recv_size.kind = "tuple" -> Raise(w, "TypeError")
      [] t.recv_size.kind = "None" -> data_received(w, e, t.recv_buffer)
      [] OTHER -> data_received(w, e, Take(t.recv_buffer, t.recv_size.val))

\* ISOTPTransport._send_fc (block_size and st_min are bytes in every
\* configuration of the model, so bytearray item assignment never fails)
send_fc(w, e, fs) ==
    send_raw(w, e, << FLOW_CONTROL_FRAME * 16 + fs,
                      w.tr[e].block_size, w.tr[e].st_min >>)

\* ISOTPTransport._handle_sf
handle_sf(w, e, data) ==
    LET w1 == reset_recv(w, e)
        w2 == [w1 EXCEPT !.tr[e].recv_size = PyInt(data[1] % 16),
                         !.tr[e].recv_buffer = @ \o Drop(data, 1)]
    IN end_recv(w2, e)

\* The declared size as _handle_ff computes it: the 12-bit length, or, when
\* that is 0, what struct.unpack_from returns, which is a tuple.
ff_size(data) ==
    LET size == (data[1] % 16) * 256 + data[2] IN
    IF size = 0 THEN PyTuple(UnpackBE32(data)) ELSE PyInt(size)

\* _handle_ff without the call of _reset_recv
handle_ff_keep(w, e, data) ==
    IF Len(data) < 2 THEN Raise(w, "IndexError")
    ELSE IF (data[1] % 16) * 256 + data[2] = 0 /\ Len(data) < 6
    THEN Raise(w, "struct.error")
    ELSE
        LET size == ff_size(data)
            frame_payload == IF size.kind = "tuple" THEN Drop(data, 6)
                             ELSE Drop(data, 2)
            w2 == [w EXCEPT !.tr[e].recv_size = size,
                            !.tr[e].recv_buffer = @ \o frame_payload]
        IN send_fc(w2, e, CONTINUE_TO_SEND)

\* ISOTPTransport._handle_ff
handle_ff(w, e, data) ==
    LET w1 == reset_recv(w, e) IN
    IF Len(data) < 2 THEN Raise(w1, "IndexError")
    ELSE IF (data[1] % 16) * 256 + data[2] = 0 /\ Len(data) < 6
    THEN Raise(w1, "struct.error")
    ELSE
        LET size == ff_size(data)
            frame_payload == IF size.kind = "tuple" THEN Drop(data, 6)
                             ELSE Drop(data, 2)
            w2 == [w1 EXCEPT !.tr[e].recv_size = size,
                             !.tr[e].recv_buffer = @ \o frame_payload]
        IN send_fc(w2, e, CONTINUE_TO_SEND)

\* _handle_cf without the reset of _recv_block_count after a flow control
handle_cf_noreset(w, e, data) ==
    LET seq_no == data[1] % 16 IN
    IF seq_no # w.tr[e].recv_seq_no % 16 THEN Raise(w, "ISOTPError")
    ELSE
        LET w1 == [w EXCEPT !.tr[e].recv_buffer = @ \o Drop(data, 1),
                            !.tr[e].recv_seq_no = @ + 1,
                            !.tr[e].recv_block_count = @ + 1]
            t == w1.tr[e]
        IN  IF t.recv_size.kind # "int" THEN Raise(w1, "TypeError")
            ELSE IF Len(t.recv_buffer) >= t.recv_size.val THEN end_recv(w1, e)
            ELSE IF t.recv_block_count = t.block_size
            THEN send_fc(w1, e, CONTINUE_TO_SEND)
            ELSE w1

\* ISOTPTransport._handle_cf: comparing len(recv_buffer) with None or with a
\* tuple is a TypeError, raised after the buffer and the counters changed.
handle_cf(w, e, data) ==
    LET seq_no == data[1] % 16 IN
    IF seq_no # w.tr[e].recv_seq_no % 16 THEN Raise(w, "ISOTPError")
    ELSE
        LET w1 == [w EXCEPT !.tr[e].recv_buffer = @ \o Drop(data, 1),
                            !.tr[e].recv_seq_no = @ + 1,
                            !.tr[e].recv_block_count = @ + 1]
            t == w1.tr[e]
        IN  IF t.recv_size.kind # "int" THEN Raise(w1, "TypeError")
            ELSE IF Len(t.recv_buffer) >= t.recv_size.val THEN end_recv(w1, e)
            ELSE IF t.recv_block_count = t.block_size
            THEN [send_fc(w1, e, CONTINUE_TO_SEND)
                    EXCEPT !.tr[e].recv_block_count = 0]
            ELSE w1

-----------------------------------------------------------------------------
(* ISOTPTransport: the sender. *)

\* loop.call_soon(self._start_send)
call_soon_start_send(w, e) == [w EXCEPT !.loop.ready[e] = @ + 1]
\* loop.call_later(wait, self._send_cfs)
call_later_send_cfs(w, e, wait) == [w EXCEPT !.loop.timers[e] = Append(@, wait)]

\* ISOTPTransport._end_send without the test of _closing
end_send_noclose(w, e) ==
    LET w1 == IF w.tr[e].send_queue # << >>
              THEN [w EXCEPT !.tr[e].send_queue = Tail(@)] ELSE w
    IN  IF w1.tr[e].send_queue # << >> THEN call_soon_start_send(w1, e)
        ELSE resume_writing(w1, e)

\* _end_send that resumes the protocol after every payload
end_send_eager(w, e) ==
    LET w1 == IF w.tr[e].send_queue # << >>
              THEN [w EXCEPT !.tr[e].send_queue = Tail(@)] ELSE w
        w2 == resume_writing(w1, e)
    IN  IF w1.tr[e].send_queue # << >> THEN call_soon_start_send(w2, e)
        ELSE IF w2.tr[e].closing THEN connection_lost(w2, e, "None") ELSE w2

\* ISOTPTransport._end_send
end_send(w, e) ==
    LET w1 == IF w.tr[e].send_queue # << >>
              THEN [w EXCEPT !.tr[e].send_queue = Tail(@)] ELSE w
    IN  IF w1.tr[e].send_queue # << >> THEN call_soon_start_send(w1, e)
        ELSE LET w2 == resume_writing(w1, e) IN
             IF w2.tr[e].closing THEN connection_lost(w2, e, "None") ELSE w2

\* ISOTPTransport._send_sf
send_sf(w, e) ==
    LET buffer == w.tr[e].send_queue[1]
        data == << SINGLE_FRAME * 16 + Len(buffer) >> \o buffer
    IN end_send(send_raw(w, e, data), e)

\* ISOTPTransport._send_ff (payloads of the model are shorter than 2^32)
send_ff(w, e) ==
    LET buffer == w.tr[e].send_queue[1]
        size == Len(buffer)
        short == size < 4096
        data == IF short
                THEN << FIRST_FRAME * 16 + (size \div 256), size % 256 >>
                     \o Take(buffer, 6)
                ELSE << FIRST_FRAME * 16, 0 >> \o PackBE32(size)
                     \o Take(buffer, 2)
        w1 == [w EXCEPT !.tr[e].send_queue[1] =
                            Drop(@, IF short THEN 6 ELSE 2)]
        w2 == send_raw(w1, e, data)
    IN [w2 EXCEPT !.tr[e].send_seq_no = 1, !.tr[e].send_block_count = 0]

\* ISOTPTransport._start_send
start_send(w, e) ==
    IF w.tr[e].send_queue = << >> THEN Raise(w, "IndexError")
    ELSE IF Len(w.tr[e].send_queue[1]) < 8 THEN send_sf(w, e)
    ELSE send_ff(w, e)

\* write with the payload put at the head of the queue
write_front(w, e, payload) ==
    LET w1 == [w EXCEPT !.tr[e].send_queue = << payload >> \o @] IN
    IF Len(w1.tr[e].send_queue) = 1
    THEN start_send(pause_writing(w1, e), e)
    ELSE w1

\* write that pauses the protocol on every call
write_pause_always(w, e, payload) ==
    LET w1 == pause_writing(
                  [w EXCEPT !.tr[e].send_queue = Append(@, payload)], e) IN
    IF Len(w1.tr[e].send_queue) = 1 THEN start_send(w1, e) ELSE w1

\* ISOTPTransport.write
write(w, e, payload) ==
    LET w1 == [w EXCEPT !.tr[e].send_queue = Append(@, payload)] IN
    IF Len(w1.tr[e].send_queue) = 1
    THEN start_send(pause_writing(w1, e), e)
    ELSE w1

\* ISOTPTransport._get_wait_time, in nanoseconds, of the STmin byte and the
\* loop's _clock_resolution (PyNone for a loop without the attribute)
get_wait_time(st_min, clock_resolution) ==
    LET wait == IF st_min = 0 THEN 0
                ELSE IF st_min < 128 THEN st_min * 1000000
                ELSE IF 241 <= st_min /\ st_min <= 249
                THEN (st_min - 240) * 1000
                ELSE 127000000
    IN IF wait # 0 /\ clock_resolution.kind = "int"
       THEN Max(wait, clock_resolution.val + 1000000) ELSE wait

\* _send_cf without the end of the block
send_cf_noblock(w, e) ==
    IF w.tr[e].send_queue = << >>
    THEN [w |-> Raise(w, "IndexError"), ret |-> FALSE]
    ELSE
        LET buffer == w.tr[e].send_queue[1]
            data == << CONSECUTIVE_FRAME * 16 + (w.tr[e].send_seq_no % 16) >>
                    \o Take(buffer, 7)
            w1 == send_raw(w, e, data)
            w2 == [w1 EXCEPT !.tr[e].send_queue[1] = Drop(@, 7),
                             !.tr[e].send_seq_no = @ + 1,
                             !.tr[e].send_block_count = @ + 1]
        IN  IF w2.tr[e].send_queue[1] = << >>
            THEN [w |-> end_send(w2, e), ret |-> FALSE]
            ELSE [w |-> w2, ret |-> TRUE]

\* _send_cf with a sequence number that wraps to 0 after 14
send_cf_wrap15(w, e) ==
    IF w.tr[e].send_queue = << >>
    THEN [w |-> Raise(w, "IndexError"), ret |-> FALSE]
    ELSE
        LET buffer == w.tr[e].send_queue[1]
            data == << CONSECUTIVE_FRAME * 16 + (w.tr[e].send_seq_no % 15) >>
                    \o Take(buffer, 7)
            w1 == send_raw(w, e, data)
            w2 == [w1 EXCEPT !.tr[e].send_queue[1] = Drop(@, 7),
                             !.tr[e].send_seq_no = @ + 1,
                             !.tr[e].send_block_count = @ + 1]
            t == w2.tr[e]
        IN  IF t.send_queue[1] = << >>
            THEN [w |-> end_send(w2, e), ret |-> FALSE]
            ELSE IF t.send_block_size.kind = "int"
                    /\ t.send_block_count = t.send_block_size.val
            THEN [w |-> [w2 EXCEPT !.tr[e].send_block_count = 0,
                                   !.tr[e].send_wf_count = 0],
                  ret |-> FALSE]
            ELSE [w |-> w2, ret |-> TRUE]

\* ISOTPTransport._send_cf: the world after the call and the value returned
send_cf(w, e) ==
    IF w.tr[e].send_queue = << >>
    THEN [w |-> Raise(w, "IndexError"), ret |-> FALSE]
    ELSE
        LET buffer == w.tr[e].send_queue[1]
            data == << CONSECUTIVE_FRAME * 16 + (w.tr[e].send_seq_no % 16) >>
                    \o Take(buffer, 7)
            w1 == send_raw(w, e, data)
            w2 == [w1 EXCEPT !.tr[e].send_queue[1] = Drop(@, 7),
                             !.tr[e].send_seq_no = @ + 1,
                             !.tr[e].send_block_count = @ + 1]
            t == w2.tr[e]
        IN  IF t.send_queue[1] = << >>
            THEN [w |-> end_send(w2, e), ret |-> FALSE]
            ELSE IF t.send_block_size.kind = "int"
                    /\ t.send_block_count = t.send_block_size.val
            THEN [w |-> [w2 EXCEPT !.tr[e].send_block_count = 0,
                                   !.tr[e].send_wf_count = 0],
                  ret |-> FALSE]
            ELSE [w |-> w2, ret |-> TRUE]

\* ISOTPTransport._send_cfs (a None _send_st_min cannot be compared: TypeError)
send_cfs(w, e) ==
    LET r == send_cf(w, e) IN
    IF r.w.exc # "none" \/ ~r.ret THEN r.w
    ELSE IF r.w.tr[e].send_st_min.kind # "int" THEN Raise(r.w, "TypeError")
    ELSE call_later_send_cfs(r.w, e,
             get_wait_time(r.w.tr[e].send_st_min.val, r.w.loop.clock_resolution))

\* ISOTPTransport._handle_fc
handle_fc(w, e, data) ==
    IF Len(data) < 3 THEN Raise(w, "struct.error")
    ELSE
        LET fs == data[1] % 16 IN
        IF fs = CONTINUE_TO_SEND
        THEN send_cfs([w EXCEPT !.tr[e].send_block_size = PyInt(data[2]),
                                !.tr[e].send_st_min = PyInt(data[3])], e)
        ELSE IF fs = WAIT
        THEN [w EXCEPT !.tr[e].send_wf_count = @ + 1]
        ELSE w

\* ISOTPTransport.feed_data
feed_data(w, e, data) ==
    IF data = << >> THEN Raise(w, "IndexError")
    ELSE
        LET pci_type == data[1] \div 16 IN
        IF pci_type = FLOW_CONTROL_FRAME THEN handle_fc(w, e, data)
        ELSE IF w.tr[e].closing THEN w
        ELSE IF pci_type = SINGLE_FRAME THEN handle_sf(w, e, data)
        ELSE IF pci_type = FIRST_FRAME THEN handle_ff(w, e, data)
        ELSE IF pci_type = CONSECUTIVE_FRAME THEN handle_cf(w, e, data)
        ELSE w

\* ISOTPTransport.close
close(w, e) ==
    LET w1 == [w EXCEPT !.tr[e].closing = TRUE] IN
    IF w1.tr[e].send_queue = << >> THEN connection_lost(w1, e, "None")
    ELSE w1

-----------------------------------------------------------------------------
(* ISOTPNetwork: the demultiplexer. *)

\* ISOTPNetwork.send
ISOTPNetwork_send(w, txid, payload) ==
    LET size == Len(payload) IN
    IF ~(size < 8) THEN Raise(w, "AssertionError")
    ELSE ISOTPNetwork_send_raw(w, txid, << SINGLE_FRAME * 16 + size >> \o payload)

\* ISOTPNetwork.on_message_received without the test of is_remote_frame
ISOTPNetwork_on_message_received_rtr(w, msg) ==
    IF msg.is_error_frame THEN w
    ELSE IF msg.arbitration_id \in DOMAIN w.net.rxids
    THEN feed_data(w, w.net.rxids[msg.arbitration_id], msg.data)
    ELSE w

\* ISOTPNetwork.on_message_received
ISOTPNetwork_on_message_received(w, msg) ==
    IF msg.is_error_frame \/ msg.is_remote_frame THEN w
    ELSE IF msg.arbitration_id \in DOMAIN w.net.rxids
    THEN feed_data(w, w.net.rxids[msg.arbitration_id], msg.data)
    ELSE w

RECURSIVE lost_all(_, _, _)
lost_all(w, es, x) ==
    IF es = {} THEN w
    ELSE LET e == CHOOSE y \in es : TRUE IN
         lost_all(connection_lost(w, e, x), es \ {e}, x)

\* ISOTPNetwork.on_error
ISOTPNetwork_on_error(w, x) ==
    lost_all(w, {w.net.rxids[i] : i \in DOMAIN w.net.rxids}, x)

-----------------------------------------------------------------------------
(* isotpserver: the text framer. Characters are their ASCII codes. *)

LT == 60     \* ord('<')
GT == 62     \* ord('>')

HexDigit(d) == IF d < 10 THEN 48 + d ELSE 87 + d
\* binascii.hexlify
RECURSIVE hexlify(_)
hexlify(bs) ==
    IF bs = << >> THEN << >>
    ELSE << HexDigit(Head(bs) \div 16), HexDigit(Head(bs) % 16) >>
         \o hexlify(Tail(bs))

IsHexChar(c) ==
    \/ 48 <= c /\ c <= 57
    \/ 97 <= c /\ c <= 102
    \/ 65 <= c /\ c <= 70
HexValue(c) == IF c <= 57 THEN c - 48 ELSE IF c >= 97 THEN c - 87 ELSE c - 55
\* binascii.unhexlify raises binascii.Error for these
BadHex(cs) == Len(cs) % 2 = 1 \/ \E i \in DOMAIN cs : ~IsHexChar(cs[i])
\* binascii.unhexlify
RECURSIVE unhexlify(_)
unhexlify(cs) ==
    IF cs = << >> THEN << >>
    ELSE << HexValue(cs[1]) * 16 + HexValue(cs[2]) >> \o unhexlify(Drop(cs, 2))

\* bytearray.find(c): the 0-based index of the first c, or -1
Find(s, c) ==
    IF \E i \in DOMAIN s : s[i] = c
    THEN (CHOOSE i \in DOMAIN s : s[i] = c /\ \A j \in 1..(i - 1) : s[j] # c) - 1
    ELSE -1

\* s[a:b] for 0 <= a
Slice(s, a, b) == SubSeq(s, a + 1, Min(b, Len(s)))

\* WrappedTransport.write: what is written to the socket
WrappedTransport_write(payload) == << LT >> \o hexlify(payload) \o << GT >>

\* The loop of WrappedProtocol.data_received, with del buffer[:end]
RECURSIVE data_received_loop_short(_)
data_received_loop_short(wp) ==
    LET start == Find(wp.buffer, LT)
        end == Find(wp.buffer, GT)
    IN  IF start = -1 \/ end = -1 THEN wp
        ELSE LET hex == Slice(wp.buffer, start + 1, end) IN
             IF BadHex(hex) THEN [wp EXCEPT !.exc = "binascii.Error"]
             ELSE IF end = 0 THEN [wp EXCEPT !.exc = "endless"]
             ELSE data_received_loop_short(
                      [wp EXCEPT !.buffer = Drop(@, end),
                                 !.ready = Append(@, unhexlify(hex))])

\* The loop of WrappedProtocol.data_received
RECURSIVE data_received_loop(_)
data_received_loop(wp) ==
    LET start == Find(wp.buffer, LT)
        end == Find(wp.buffer, GT)
    IN  IF start = -1 \/ end = -1 THEN wp
        ELSE LET hex == Slice(wp.buffer, start + 1, end) IN
             IF BadHex(hex) THEN [wp EXCEPT !.exc = "binascii.Error"]
             ELSE data_received_loop(
                      [wp EXCEPT !.buffer = Drop(@, end + 1),
                                 !.ready = Append(@, unhexlify(hex))])

\* WrappedProtocol.data_received
WrappedProtocol_data_received(wp, data) ==
    data_received_loop([wp EXCEPT !.buffer = @ \o data, !.exc = "none"])

-----------------------------------------------------------------------------
(* The state machine: one action per call into the library. *)

World ==
    [ net |-> network, tr |-> transports, pr |-> protocols, loop |-> loop,
      bus |-> bus, exc |-> "none" ]

Commit(w) ==
    /\ transports' = w.tr
    /\ protocols' = w.pr
    /\ loop' = w.loop
    /\ bus' = w.bus
    /\ exc' = w.exc
    /\ network' = network

\* The payload of the t-th write, n bytes long: its bytes name the write
\* (the two high bits) and the position in it.
Payload(t, n) == [i \in 1..n |-> (t % 4) * 64 + ((i - 1) % 64)]

\* The user calls transport.write(payload) on engine e.
Write(e, payload) ==
    /\ Commit(write(World, e, payload))
    /\ writes' = [writes EXCEPT ![e] = Append(@,
                    [ payload |-> payload,
                      queued |-> Len(transports[e].send_queue),
                      closing |-> transports[e].closing ])]
    /\ UNCHANGED <<fed, script, wrapped>>

\* The entry of the feed_data log for message msg handled with result w;
\* the state of the sender at the call is kept where script.log_sender says.
FedAfter(w, msg) ==
    IF msg.is_error_frame \/ msg.is_remote_frame
       \/ msg.arbitration_id \notin DOMAIN network.rxids
       \/ ~script.log_fed
    THEN fed
    ELSE LET e == network.rxids[msg.arbitration_id] IN
         [fed EXCEPT ![e] = Append(@,
             [ data |-> msg.data, exc |-> w.exc,
               seq_no |-> transports[e].recv_seq_no,
               delivered |-> Len(w.pr[e].data_received),
               sent |-> Len(w.bus.sent) - Len(bus.sent),
               before |-> IF script.log_sender THEN Len(bus.sent) ELSE 0,
               timers |-> IF script.log_sender
                          THEN Len(loop.timers[e]) ELSE 0,
               block_count |-> IF script.log_sender
                               THEN transports[e].send_block_count ELSE 0,
               queue |-> IF script.log_sender
                         THEN Len(transports[e].send_queue) ELSE 0 ])]

\* The notifier hands the listener the oldest message of the bus.
Hear ==
    /\ bus.heard # << >>
    /\ LET msg == Head(bus.heard)
           w == ISOTPNetwork_on_message_received(
                    [World EXCEPT !.bus.heard = Tail(@)], msg)
       IN Commit(w) /\ fed' = FedAfter(w, msg)
    /\ UNCHANGED <<writes, script, wrapped>>

\* The peer puts a frame on the bus for engine e, and the listener hears it.
Inject(e, data) ==
    LET msg == Message(Rxid(e), data)
        w == ISOTPNetwork_on_message_received(World, msg)
    IN  /\ Commit(w)
        /\ fed' = FedAfter(w, msg)
        /\ script' = [script EXCEPT !.injects = @ + 1]
        /\ UNCHANGED <<writes, wrapped>>

\* The user calls transport.close() on engine e.
Close(e) ==
    /\ Commit(close(World, e))
    /\ script' = [script EXCEPT !.closes = @ + 1]
    /\ UNCHANGED <<writes, fed, wrapped>>

\* The notifier reports a bus error to the listener.
BusError ==
    /\ Commit(ISOTPNetwork_on_error(World, "CanError"))
    /\ script' = [script EXCEPT !.errors = @ + 1]
    /\ UNCHANGED <<writes, fed, wrapped>>

\* The user calls network.send(txid, payload).
Send(txid, payload) ==
    LET w == ISOTPNetwork_send(World, txid, payload) IN
    /\ Commit(w)
    /\ script' = [script EXCEPT !.sends = Append(@,
                     [ txid |-> txid, payload |-> payload, exc |-> w.exc,
                       before |-> Len(bus.sent), after |-> Len(w.bus.sent) ])]
    /\ UNCHANGED <<writes, fed, wrapped>>

\* The loop runs a _start_send scheduled by call_soon.
RunStartSend(e) ==
    /\ loop.ready[e] > 0
    /\ Commit(start_send([World EXCEPT !.loop.ready[e] = @ - 1], e))
    /\ UNCHANGED <<writes, fed, script, wrapped>>

RemoveAt(s, i) == SubSeq(s, 1, i - 1) \o SubSeq(s, i + 1, Len(s))

\* The loop runs a _send_cfs scheduled by call_later.
RunSendCfs(e) ==
    \E i \in DOMAIN loop.timers[e] :
        /\ Commit(send_cfs([World EXCEPT !.loop.timers[e] = RemoveAt(@, i)], e))
        /\ UNCHANGED <<writes, fed, script, wrapped>>

-----------------------------------------------------------------------------
(* SpecRoundTrip: one payload written on A, carried to B over a bus that   *)
(* hands every message back to the listener.                               *)

BlockSizes == {0, 1, 2, 16}
LongLens == {111, 112, 113, 4095, 4096}
RoundTripLens == (1..MaxSmallLen) \cup LongLens

NewNetwork(bs, st, wft) ==
    [ block_size |-> bs, st_min |-> st, max_wft |-> wft,
      rxids |-> [i \in {Rxid(e) : e \in Engines} |->
                    CHOOSE e \in Engines : Rxid(e) = i] ]

NewScript ==
    [ len |-> 0, closes |-> 0, errors |-> 0, sends |-> << >>, injects |-> 0,
      log_fed |-> FALSE, heard |-> 0, msg |-> Message(0, << >>),
      pending |-> 0, log_sender |-> FALSE ]

\* WrappedProtocol (_buffer, the payloads handed to call_soon, the calls of
\* the user's data_received) and the socket under WrappedTransport.
NewWrapped ==
    [ buffer |-> << >>, ready |-> << >>, exc |-> "none",
      data_received |-> << >>, payloads |-> << >>, written |-> << >>,
      stream |-> << >>, chunks |-> 0, noise |-> << >> ]

\* The state after both connections are made on a loop whose
\* _clock_resolution is res.
InitLoop(bs, st, wft, own, res) ==
    /\ network = NewNetwork(bs, st, wft)
    /\ transports = [e \in Engines |-> NewTransport(bs, st, wft)]
    /\ protocols = [e \in Engines |-> NewProtocol]
    /\ loop = [ ready |-> [e \in Engines |-> 0],
                timers |-> [e \in Engines |-> << >>],
                clock_resolution |-> res ]
    /\ bus = [ sent |-> << >>, heard |-> << >>, receive_own_messages |-> own ]
    /\ exc = "none"
    /\ writes = [e \in Engines |-> << >>]
    /\ fed = [e \in Engines |-> << >>]
    /\ wrapped = NewWrapped

\* The same on a loop with a clock resolution of 1 ns.
InitWith(bs, st, wft, own) == InitLoop(bs, st, wft, own, PyInt(1))

\* With block_size 0 the sender never waits for the receiver, and the
\* interleavings of a long payload's frames grow with the square of its length:
\* the longest payloads are sent with the block sizes that make the sender wait.
InitRoundTrip ==
    \E bs \in BlockSizes, n \in RoundTripLens :
        /\ bs = 0 => n <= MaxUnlimitedLen
        /\ InitWith(bs, 0, 0, TRUE)
        /\ script = [NewScript EXCEPT !.len = n, !.log_fed = TRUE]

WriteOnce ==
    /\ writes["A"] = << >>
    /\ Write("A", Payload(1, script.len))

NextRoundTrip ==
    \/ WriteOnce
    \/ Hear
    \/ RunSendCfs("A")

SpecRoundTrip == InitRoundTrip /\ [][NextRoundTrip]_vars

-----------------------------------------------------------------------------
(* Spec: engine A under its user (write, close), the loop, bus errors and  *)
(* a peer. The peer is either engine B, on a bus that hands every message  *)
(* back to the listener, or an arbitrary node that answers with any flow   *)
(* control frame at any time.                                              *)

WriteLens == {3, 20}
PeerFCs ==
    { << FLOW_CONTROL_FRAME * 16 + CONTINUE_TO_SEND, 0, 0 >>,
      << FLOW_CONTROL_FRAME * 16 + CONTINUE_TO_SEND, 1, 0 >>,
      << FLOW_CONTROL_FRAME * 16 + WAIT, 0, 0 >>,
      << FLOW_CONTROL_FRAME * 16 + OVERFLOW, 0, 0 >> }

Init ==
    /\ \/ InitWith(1, 0, 0, TRUE)
       \/ InitWith(16, 0, 0, FALSE)
    /\ script = NewScript

UserWrite ==
    /\ Len(writes["A"]) < MaxWrites
    /\ \E n \in WriteLens : Write("A", Payload(Len(writes["A"]) + 1, n))

UserClose ==
    /\ script.closes < MaxCloses
    /\ Close("A")

PeerInject ==
    /\ ~bus.receive_own_messages
    /\ script.injects < MaxInject
    /\ \E data \in PeerFCs : Inject("A", data)

NotifierError ==
    /\ script.errors < MaxErrors
    /\ BusError

Next ==
    \/ UserWrite
    \/ UserClose
    \/ PeerInject
    \/ Hear
    \/ NotifierError
    \/ RunStartSend("A")
    \/ RunSendCfs("A")

Spec == Init /\ [][Next]_vars

-----------------------------------------------------------------------------
(* What the properties read off the state. *)

IsPrefix(s, t) == Len(s) <= Len(t) /\ s = SubSeq(t, 1, Len(s))

\* s is t with some elements left out.
RECURSIVE IsSubseq(_, _)
IsSubseq(s, t) ==
    IF s = << >> THEN TRUE
    ELSE IF t = << >> THEN FALSE
    ELSE IF Head(s) = Head(t) THEN IsSubseq(Tail(s), Tail(t))
    ELSE IsSubseq(s, Tail(t))

RECURSIVE Concat(_)
Concat(ss) == IF ss = << >> THEN << >> ELSE Head(ss) \o Concat(Tail(ss))

PciType(data) == data[1] \div 16
IsEscapeFF(data) ==
    PciType(data) = FIRST_FRAME /\ data[1] % 16 = 0 /\ data[2] = 0

\* The payload bytes a frame carries.
FramePayload(data) ==
    IF PciType(data) = FLOW_CONTROL_FRAME THEN << >>
    ELSE IF PciType(data) = FIRST_FRAME
    THEN Drop(data, IF IsEscapeFF(data) THEN 6 ELSE 2)
    ELSE Drop(data, 1)

\* The frames engine e has put on the bus, oldest first.
SentBy(e) ==
    LET ms == SelectSeq(bus.sent, LAMBDA m : m.arbitration_id = Txid(e))
    IN [i \in DOMAIN ms |-> ms[i].data]
FramesOfType(fs, t) == SelectSeq(fs, LAMBDA d : PciType(d) = t)

\* The payload bytes engine e has put on the bus, and those it was given.
WireBytes(e) ==
    LET fs == SentBy(e) IN Concat([i \in DOMAIN fs |-> FramePayload(fs[i])])
PayloadsWritten(e) == [i \in DOMAIN writes[e] |-> writes[e][i].payload]
Written(e) == Concat(PayloadsWritten(e))

CeilDiv(a, b) == (a + b - 1) \div b
\* The consecutive frames a payload of n >= 8 bytes needs after a 12-bit FF.
NumCFs(n) == CeilDiv(n - 6, 7)

-----------------------------------------------------------------------------
(* SpecRoundTrip: claims C1, C2, C8. *)

RoundTripQuiet ==
    /\ writes["A"] # << >>
    /\ bus.heard = << >>
    /\ loop.timers["A"] = << >>

\* What the round trip of the payload of the run promises at every moment:
\* no callback failed, the receive handler got nothing but the payload, once,
\* and has it when all frames are handled; the k-th CF on the wire carries
\* nibble k mod 16, which is the nibble the receiver expected.
RoundTripHolds ==
    LET p == Payload(1, script.len)
        cfs == FramesOfType(SentBy("A"), CONSECUTIVE_FRAME)
        got == protocols["B"].data_received
    IN  /\ exc = "none"
        /\ got \in { << >>, << p >> }
        /\ RoundTripQuiet => got = << p >>
        /\ \A i \in DOMAIN cfs : cfs[i][1] % 16 = i % 16
        /\ \A i \in DOMAIN fed["B"] :
               LET f == fed["B"][i] IN
               PciType(f.data) = CONSECUTIVE_FRAME =>
                   /\ f.exc = "none"
                   /\ f.seq_no % 16 = f.data[1] % 16
                   /\ f.seq_no = i - 1

\* C1: every payload of 1..4095 bytes written on the sender is handed to the
\* receiver's data_received exactly once and unchanged, with CF sequence
\* nibbles 1, 2, ..., 15, 0, 1, ... on both sides.
RoundTrip == script.len \in 1..4095 => RoundTripHolds

\* A payload of 16 CFs, the last of which carries nibble 0, has arrived.
RoundTripWitness ==
    /\ script.len = 113
    /\ RoundTripQuiet
    /\ protocols["B"].data_received = << Payload(1, 113) >>
    /\ Len(FramesOfType(SentBy("A"), CONSECUTIVE_FRAME)) = 16
    /\ SentBy("A")[17][1] = 32

\* C2: a payload of 4096 bytes or more is sent with a first frame
\* 0x10 0x00 <32-bit big-endian length> <2 payload bytes> and handed to the
\* receiver's data_received exactly once and unchanged, the receiver failing
\* on none of its frames.
EscapeRoundTrip ==
    script.len >= 4096 =>
        /\ RoundTripHolds
        /\ writes["A"] # << >> =>
               SentBy("A")[1] = << 16, 0 >> \o PackBE32(script.len)
                                \o Take(Payload(1, script.len), 2)

\* The sender's half of C2 alone.
EscapeFirstFrame ==
    (script.len >= 4096 /\ writes["A"] # << >>) =>
        SentBy("A")[1] = << 16, 0 >> \o PackBE32(script.len)
                         \o Take(Payload(1, script.len), 2)

BlockDisciplineCase ==
    /\ network.block_size > 0
    /\ script.len \in 8..4095

\* No flow control in the middle of a block: the receiver answers the i-th CF
\* with a flow control frame exactly when i is a multiple of block_size and
\* the message is not complete.
NoFCMidBlock ==
    \A i \in DOMAIN fed["B"] :
        LET f == fed["B"][i] IN
        PciType(f.data) = CONSECUTIVE_FRAME =>
            (f.sent = 1 <=> /\ (i - 1) % network.block_size = 0
                           /\ i - 1 < NumCFs(script.len))

FCsOfReceiver == Len(FramesOfType(SentBy("B"), FLOW_CONTROL_FRAME))

-----------------------------------------------------------------------------
(* Spec: claims C3, C4, C5, C6. *)

\* C3: the payload bytes engine A puts on the wire are, in order, those of
\* the payloads written, each payload's frames before the next payload's; and
\* what the peer's receive handler gets are payloads written, in the order
\* they were written.
WireOrder ==
    /\ IsPrefix(WireBytes("A"), Written("A"))
    /\ bus.receive_own_messages =>
           IsSubseq(protocols["B"].data_received, PayloadsWritten("A"))

WireOrderWitness ==
    /\ bus.receive_own_messages
    /\ Len(writes["A"]) = 2
    /\ writes["A"][2].queued = 1
    /\ \A i \in 1..2 : Len(writes["A"][i].payload) = 20
    /\ protocols["B"].data_received = PayloadsWritten("A")

\* C4: connection_lost is called at most once on a protocol handler, and has
\* been called once when the engine is closing and its send queue is empty.
ConnectionLostOnce ==
    \A e \in Engines :
        /\ Len(protocols[e].connection_lost) <= 1
        /\ (transports[e].closing /\ transports[e].send_queue = << >>) =>
               Len(protocols[e].connection_lost) = 1

\* C5: a write() on a closing engine appends nothing to the send queue and
\* puts no frame on the bus.
NoWriteAfterClose ==
    [][ \A e \in Engines :
            (transports[e].closing /\ Len(writes'[e]) > Len(writes[e])) =>
                /\ transports'[e].send_queue = transports[e].send_queue
                /\ bus'.sent = bus.sent ]_vars

BackpressureCase ==
    /\ Len(writes["A"]) = 2
    /\ Len(writes["A"][1].payload) >= 8
    /\ writes["A"][2].queued >= 1

\* C6: with write(a) multi-frame and write(b) made while a is in flight,
\* pause_writing has been called once, and resume_writing is called once,
\* when the last byte of b has been put on the wire, and not before.
Backpressure ==
    BackpressureCase =>
        /\ protocols["A"].pause_writing = 1
        /\ protocols["A"].resume_writing =
               (IF transports["A"].send_queue = << >> THEN 1 ELSE 0)
        /\ protocols["A"].resume_writing = 1 => WireBytes("A") = Written("A")

BackpressureWitness ==
    /\ BackpressureCase
    /\ protocols["A"].pause_writing = 1
    /\ protocols["A"].resume_writing = 1
    /\ Len(FramesOfType(SentBy("A"), CONSECUTIVE_FRAME)) >= 2

-----------------------------------------------------------------------------
(* SpecRecv: engine A is fed frames by a peer, any of them at any time.    *)
(* The frames are those this library's sender puts on the bus for three    *)
(* payloads: 3 bytes (a single frame), 20 bytes (a first frame and two     *)
(* consecutive frames) and 4096 bytes (a first frame with the 32-bit       *)
(* length escape, and its first consecutive frame).                        *)

FreshWorld ==
    [ net |-> NewNetwork(0, 0, 0),
      tr |-> [e \in Engines |-> NewTransport(0, 0, 0)],
      pr |-> [e \in Engines |-> NewProtocol],
      loop |-> [ ready |-> [e \in Engines |-> 0],
                 timers |-> [e \in Engines |-> << >>],
                 clock_resolution |-> PyInt(1) ],
      bus |-> [ sent |-> << >>, heard |-> << >>,
                receive_own_messages |-> FALSE ],
      exc |-> "none" ]

\* The loop runs engine e's pending _send_cfs until n frames are on the bus.
RECURSIVE RunTimers(_, _, _)
RunTimers(w, e, n) ==
    IF w.loop.timers[e] = << >> \/ Len(w.bus.sent) >= n THEN w
    ELSE RunTimers(send_cfs([w EXCEPT !.loop.timers[e] = Tail(@)], e), e, n)

\* The first n frames engine B sends for payload p to a peer that answers
\* the first frame with FC(CONTINUE_TO_SEND, 0, 0).
SenderFrames(p, n) ==
    LET w1 == write(FreshWorld, "B", p)
        w2 == IF Len(p) < 8 THEN w1
              ELSE RunTimers(handle_fc(w1, "B",
                       << FLOW_CONTROL_FRAME * 16 + CONTINUE_TO_SEND, 0, 0 >>),
                       "B", n)
    IN [i \in DOMAIN w2.bus.sent |-> w2.bus.sent[i].data]

\* A message of the peer: its payload, the frames of it the peer may feed,
\* and the number of frames of the whole message.
ShortMsg ==
    [ payload |-> Payload(3, 3), frames |-> SenderFrames(Payload(3, 3), 1),
      total |-> 1 ]
LongMsg ==
    [ payload |-> Payload(2, 20), frames |-> SenderFrames(Payload(2, 20), 3),
      total |-> 3 ]
EscapeMsg ==
    [ payload |-> Payload(1, 4096), frames |-> SenderFrames(Payload(1, 4096), 2),
      total |-> 586 ]
PeerMsgs == {ShortMsg, LongMsg, EscapeMsg}

RecvFrames == UNION { {m.frames[i] : i \in DOMAIN m.frames} : m \in PeerMsgs }
RecvBlockSizes == {1, 16}

InitRecv ==
    /\ \E bs \in RecvBlockSizes : InitWith(bs, 0, 0, FALSE)
    /\ script = [NewScript EXCEPT !.log_fed = TRUE]

PeerFeed ==
    /\ script.injects < MaxFeed
    /\ \E data \in RecvFrames : Inject("A", data)

NextRecv == PeerFeed

SpecRecv == InitRecv /\ [][NextRecv]_vars

\* The last k frames fed up to the i-th are the first k frames of message m.
Follows(log, i, m, k) ==
    /\ k <= Len(m.frames)
    /\ i >= k
    /\ \A j \in 1..k : log[i - k + j].data = m.frames[j]

DeliveredBefore(log, i) == IF i = 1 THEN 0 ELSE log[i - 1].delivered

\* The i-th frame fed is a CF that does not carry the expected nibble.
WrongSequence(log, i) ==
    /\ PciType(log[i].data) = CONSECUTIVE_FRAME
    /\ log[i].data[1] % 16 # log[i].seq_no % 16

\* A reassembly is in progress when the i-th frame is fed: a first frame was
\* fed before, and only CFs that delivered nothing since.
InProgress(log, i) ==
    \E f \in 1..(i - 1) :
        /\ PciType(log[f].data) = FIRST_FRAME
        /\ \A g \in (f + 1)..(i - 1) :
               /\ PciType(log[g].data) = CONSECUTIVE_FRAME
               /\ log[g].delivered = log[f].delivered

\* A CF with the wrong nibble, fed while a reassembly is in progress, raises
\* the sequence error and delivers nothing.
SequenceErrorRaised(log) ==
    \A i \in DOMAIN log :
        (WrongSequence(log, i) /\ InProgress(log, i)) =>
            /\ log[i].exc = "ISOTPError"
            /\ log[i].delivered = DeliveredBefore(log, i)

\* Message m, fed from its first frame on without a frame in between, is
\* accepted frame by frame and delivered, unchanged, by its last frame.
Reassembled(log, i, m, k) ==
    /\ log[i].exc = "none"
    /\ log[i].delivered =
           DeliveredBefore(log, i) + (IF k = m.total THEN 1 ELSE 0)
    /\ k = m.total =>
           protocols["A"].data_received[log[i].delivered] = m.payload

\* C2 on the receiver: the frames the sender emits for a payload of 4096
\* bytes (first frame 0x10 0x00 <32-bit length> <2 bytes>, then CFs), fed in
\* order, are handled without failure and yield the payload.
EscapeReceive ==
    /\ EscapeMsg.frames[1] = << 16, 0, 0, 0, 16, 0 >> \o Take(EscapeMsg.payload, 2)
    /\ \A i \in DOMAIN fed["A"], k \in 1..Len(EscapeMsg.frames) :
           Follows(fed["A"], i, EscapeMsg, k) =>
               Reassembled(fed["A"], i, EscapeMsg, k)

\* C7: a CF with the wrong nibble raises the sequence error and delivers
\* nothing, and a new first frame fed after it, followed by its CFs in order,
\* is reassembled and delivered unchanged.
SequenceErrorRecovery ==
    /\ SequenceErrorRaised(fed["A"])
    /\ \A i \in DOMAIN fed["A"], m \in PeerMsgs, k \in 2..3 :
           (/\ Follows(fed["A"], i, m, k)
            /\ \E j \in 1..(i - k) : /\ WrongSequence(fed["A"], j)
                                     /\ InProgress(fed["A"], j))
               => Reassembled(fed["A"], i, m, k)

\* C7 for the messages whose first frame carries a 12-bit length.
SequenceErrorRecovery12 ==
    /\ SequenceErrorRaised(fed["A"])
    /\ \A i \in DOMAIN fed["A"], k \in 2..3 :
           (/\ Follows(fed["A"], i, LongMsg, k)
            /\ \E j \in 1..(i - k) : /\ WrongSequence(fed["A"], j)
                                     /\ InProgress(fed["A"], j))
               => Reassembled(fed["A"], i, LongMsg, k)

SequenceErrorRecovery12Witness ==
    /\ Len(fed["A"]) = 5
    /\ fed["A"][1].data = LongMsg.frames[1]
    /\ fed["A"][2].data = LongMsg.frames[3]
    /\ fed["A"][2].exc = "ISOTPError"
    /\ Follows(fed["A"], 5, LongMsg, 3)
    /\ protocols["A"].data_received = << LongMsg.payload >>

-----------------------------------------------------------------------------
(* SpecSend: ISOTPNetwork.send, claim C9. *)

SendTxids == {0, 2047, 2048, 417988849}     \* 0x7FF, 0x800, 0x18DA00F1
SendLens == 0..9

InitSend ==
    /\ InitWith(16, 0, 0, FALSE)
    /\ script = NewScript

UserSend ==
    /\ Len(script.sends) < MaxSends
    /\ \E txid \in SendTxids, n \in SendLens :
           Send(txid, Payload(Len(script.sends) + 1, n))

NextSend == UserSend

SpecSend == InitSend /\ [][NextSend]_vars

\* C9: send(txid, p) with more than 7 bytes is rejected and puts nothing on
\* the bus; with 7 bytes or fewer it puts one frame on the bus: the byte |p|
\* followed by p, on arbitration ID txid, extended iff txid > 0x7FF.
FunctionalSend ==
    \A i \in DOMAIN script.sends :
        LET c == script.sends[i] IN
        IF Len(c.payload) > 7
        THEN c.exc = "AssertionError" /\ c.after = c.before
        ELSE /\ c.exc = "none"
             /\ c.after = c.before + 1
             /\ bus.sent[c.after] =
                    [ arbitration_id |-> c.txid,
                      extended_id |-> (c.txid > 2047),
                      data |-> << Len(c.payload) >> \o c.payload,
                      is_error_frame |-> FALSE, is_remote_frame |-> FALSE ]

FunctionalSendWitness ==
    /\ Len(script.sends) = 2
    /\ Len(script.sends[1].payload) = 8
    /\ script.sends[1].exc = "AssertionError"
    /\ script.sends[2].txid = 2048
    /\ Len(script.sends[2].payload) = 7
    /\ Len(bus.sent) = 1
    /\ bus.sent[1].extended_id

-----------------------------------------------------------------------------
(* SpecFramer: the isotpserver framer against a socket that returns what   *)
(* is written to it, in chunks of any size; claim C10.                     *)

FramerPayloads ==
    { << >>, << 0 >>, << 255, 255 >>, << 171, 205 >>, << 62, 60 >> }

\* The user calls transport.write(payload) on the WrappedTransport.
FramerWrite ==
    /\ Len(wrapped.payloads) < MaxPayloads
    /\ \E p \in FramerPayloads :
           wrapped' = [wrapped EXCEPT
                          !.payloads = Append(@, p),
                          !.written = Append(@, WrappedTransport_write(p)),
                          !.stream = @ \o WrappedTransport_write(p)]
    /\ UNCHANGED <<network, transports, protocols, loop, bus, exc, writes,
                   fed, script>>

\* The socket hands the next k bytes to WrappedProtocol.data_received.
FramerReceive ==
    /\ \E k \in 1..Min(MaxChunk, Len(wrapped.stream)) :
           wrapped' = [WrappedProtocol_data_received(
                           wrapped, Take(wrapped.stream, k))
                         EXCEPT !.stream = Drop(@, k), !.chunks = @ + 1]
    /\ UNCHANGED <<network, transports, protocols, loop, bus, exc, writes,
                   fed, script>>

\* The loop runs the oldest call_soon(self._protocol.data_received, payload).
FramerDeliver ==
    /\ wrapped.ready # << >>
    /\ wrapped' = [wrapped EXCEPT !.ready = Tail(@),
                                  !.data_received = Append(@, Head(wrapped.ready))]
    /\ UNCHANGED <<network, transports, protocols, loop, bus, exc, writes,
                   fed, script>>

InitFramer ==
    /\ InitWith(16, 0, 0, FALSE)
    /\ script = NewScript

NextFramer ==
    \/ FramerWrite
    \/ FramerReceive
    \/ FramerDeliver

SpecFramer == InitFramer /\ [][NextFramer]_vars

FramerQuiet == wrapped.stream = << >> /\ wrapped.ready = << >>

\* C10: whatever the chunks, the payloads written come out of the framer
\* unchanged, in order and once each: what is delivered or waiting for the
\* loop is at every moment the first payloads written, and all of them once
\* every byte has been received.
FramerRoundTrip ==
    /\ wrapped.exc = "none"
    /\ \A i \in DOMAIN wrapped.written :
           wrapped.written[i] = << LT >> \o hexlify(wrapped.payloads[i]) \o << GT >>
    /\ IsPrefix(wrapped.data_received \o wrapped.ready, wrapped.payloads)
    /\ FramerQuiet =>
           /\ wrapped.data_received = wrapped.payloads
           /\ wrapped.buffer = << >>

FramerRoundTripWitness ==
    /\ FramerQuiet
    /\ wrapped.payloads = << << 62, 60 >>, << 171, 205 >> >>
    /\ wrapped.written[2] = << 60, 97, 98, 99, 100, 62 >>
    /\ wrapped.data_received = wrapped.payloads
    /\ wrapped.chunks = 5

-----------------------------------------------------------------------------
(* SpecNoise: the framer against a socket that also carries bytes outside  *)
(* the brackets, before, between and after the messages; claim C11.        *)

NoiseBytes == {120, GT, 10}     \* 'x', '>' and a line feed

\* The socket carries one more byte, outside every '<'...'>' pair.
FramerNoise ==
    /\ Len(wrapped.noise) < MaxNoise
    /\ \E c \in NoiseBytes :
           wrapped' = [wrapped EXCEPT !.stream = Append(@, c),
                                      !.noise = Append(@, c)]
    /\ UNCHANGED <<network, transports, protocols, loop, bus, exc, writes,
                   fed, script>>

NextNoise ==
    \/ FramerWrite
    \/ FramerNoise
    \/ FramerReceive
    \/ FramerDeliver

SpecNoise == InitFramer /\ [][NextNoise]_vars

\* What the handler has been given, or will be given by the loop, is the
\* first payloads written and nothing else, and no call of data_received
\* raised.
OnlyPayloadsDelivered ==
    /\ wrapped.exc = "none"
    /\ IsPrefix(wrapped.data_received \o wrapped.ready, wrapped.payloads)
    /\ FramerQuiet => wrapped.data_received = wrapped.payloads

\* C11: bytes outside a '<'...'>' pair, a stray '>' before the next '<'
\* among them, cause no data_received call and no error, and leave the
\* payloads decoded from the messages around them unchanged.
NoiseDiscarded == OnlyPayloadsDelivered

\* C11 for the bytes outside the brackets that are not '>'.
NoiseDiscardedNoGT ==
    (\A i \in DOMAIN wrapped.noise : wrapped.noise[i] # GT)
        => OnlyPayloadsDelivered

NoiseDiscardedNoGTWitness ==
    /\ FramerQuiet
    /\ wrapped.noise = << 120, 10 >>
    /\ wrapped.payloads = << << 171, 205 >>, << 0 >> >>
    /\ wrapped.data_received = wrapped.payloads
    /\ wrapped.buffer = << 10 >>

-----------------------------------------------------------------------------
(* SpecDemux: the listener hears CAN messages of any arbitration ID, error *)
(* frames and remote-request frames among them; claim C12.                 *)

DemuxIds == {Rxid("A"), Rxid("B"), 291}      \* 0x123 has no engine
DemuxData ==
    { << 3, 1, 2, 3 >>,
      << 16, 20, 128, 129, 130, 131, 132, 133 >>,
      << 33, 134, 135, 136, 137, 138, 139, 140 >>,
      << 34, 141, 142, 143, 144, 145, 146, 147 >>,
      << 48, 0, 0 >> }
DemuxMsgs ==
    { [Message(id, data) EXCEPT !.is_error_frame = ef, !.is_remote_frame = rf] :
          id \in DemuxIds, data \in DemuxData,
          ef \in BOOLEAN, rf \in BOOLEAN }

InitDemux ==
    /\ InitWith(16, 0, 0, FALSE)
    /\ script = NewScript

\* The notifier hands a message of the bus to the listener.
BusMessage ==
    /\ script.heard < MaxMsgs
    /\ \E msg \in DemuxMsgs :
           /\ Commit(ISOTPNetwork_on_message_received(World, msg))
           /\ script' = [script EXCEPT !.heard = @ + 1, !.msg = msg]
    /\ UNCHANGED <<writes, fed, wrapped>>

NextDemux == BusMessage

SpecDemux == InitDemux /\ [][NextDemux]_vars

Dropped(msg) ==
    \/ msg.is_error_frame
    \/ msg.is_remote_frame
    \/ \A e \in Engines : Rxid(e) # msg.arbitration_id

\* C12: a message heard is handed to feed_data of the engine registered under
\* its arbitration ID and changes no other engine; an error frame, a
\* remote-request frame or a message of an ID without engine changes nothing.
Routing ==
    [][ script'.heard > script.heard =>
          LET msg == script'.msg IN
          /\ \A e \in Engines :
                 IF ~Dropped(msg) /\ Rxid(e) = msg.arbitration_id
                 THEN /\ transports'[e] = feed_data(World, e, msg.data).tr[e]
                      /\ protocols'[e] = feed_data(World, e, msg.data).pr[e]
                      /\ exc' = feed_data(World, e, msg.data).exc
                 ELSE /\ transports'[e] = transports[e]
                      /\ protocols'[e] = protocols[e]
          /\ Dropped(msg) =>
                 /\ UNCHANGED <<transports, protocols, loop, bus>>
                 /\ exc' = "none" ]_vars

\* Each engine was handed one single frame, and a third message was dropped.
RoutingWitness ==
    /\ script.heard = 3
    /\ script.msg.is_remote_frame
    /\ script.msg.arbitration_id = Rxid("A")
    /\ script.msg.data = << 3, 1, 2, 3 >>
    /\ \A e \in Engines : protocols[e].data_received = << << 1, 2, 3 >> >>

-----------------------------------------------------------------------------
(* SpecDrain: engine A writes and closes; engine B, on the same bus,       *)
(* answers every first frame and every full block with                     *)
(* FC(CONTINUE_TO_SEND); the loop runs every callback it was given. The    *)
(* user writes nothing once close() was called. Claim C13.                 *)

InitDrain ==
    /\ \E bs \in {0, 1, 16} : InitWith(bs, 0, 0, TRUE)
    /\ script = NewScript

DrainWrite ==
    /\ ~transports["A"].closing
    /\ UserWrite

\* The user calls close() on engine A; the length of the send queue at the
\* call is kept.
DrainClose ==
    /\ script.closes < MaxCloses
    /\ Commit(close(World, "A"))
    /\ script' = [script EXCEPT !.closes = @ + 1,
                                !.pending = Len(transports["A"].send_queue)]
    /\ UNCHANGED <<writes, fed, wrapped>>

NextDrain ==
    \/ DrainWrite
    \/ DrainClose
    \/ Hear
    \/ RunStartSend("A")
    \/ RunSendCfs("A")

SpecDrain ==
    /\ InitDrain
    /\ [][NextDrain]_vars
    /\ WF_vars(Hear)
    /\ WF_vars(RunStartSend("A"))
    /\ WF_vars(RunSendCfs("A"))

Drained ==
    /\ transports["A"].send_queue = << >>
    /\ WireBytes("A") = Written("A")
    /\ protocols["A"].connection_lost = << "None" >>

\* connection_lost is not called before the last frame is on the wire.
DrainOrder ==
    protocols["A"].connection_lost # << >> =>
        (script.closes >= 1 /\ WireBytes("A") = Written("A"))

\* C13: after close() with payloads in the send queue, every payload queued
\* is eventually on the wire, whole, and connection_lost(None) has then been
\* called, and not before.
DrainOnClose ==
    /\ (transports["A"].closing /\ script.pending > 0) ~> Drained
    /\ []DrainOrder

DrainOnCloseWitness ==
    /\ script.pending = 2
    /\ Len(writes["A"][1].payload) = 20
    /\ Len(writes["A"][2].payload) = 20
    /\ Drained
    /\ protocols["B"].data_received = PayloadsWritten("A")

-----------------------------------------------------------------------------
(* Claim C14, under SpecRecv. *)

\* The receiver is Idle when the i-th frame is fed: no first frame was fed
\* before, or the frame before completed a message.
IdleAt(log, i) ==
    \/ \A j \in 1..(i - 1) : PciType(log[j].data) # FIRST_FRAME
    \/ i > 1 /\ log[i - 1].delivered > DeliveredBefore(log, i - 1)

\* C14: a CF fed while the receiver is Idle causes no data_received call, no
\* error and no flow control frame, whatever its sequence nibble.
IdleCFDropped ==
    \A i \in DOMAIN fed["A"] :
        (PciType(fed["A"][i].data) = CONSECUTIVE_FRAME /\ IdleAt(fed["A"], i)) =>
            /\ fed["A"][i].exc = "none"
            /\ fed["A"][i].delivered = DeliveredBefore(fed["A"], i)
            /\ fed["A"][i].sent = 0

\* C14 for the calls of data_received alone: a CF fed while the receiver is
\* Idle may raise, but hands nothing to the handler.
IdleCFDeliversNothing ==
    \A i \in DOMAIN fed["A"] :
        (PciType(fed["A"][i].data) = CONSECUTIVE_FRAME /\ IdleAt(fed["A"], i)) =>
            fed["A"][i].delivered = DeliveredBefore(fed["A"], i)

-----------------------------------------------------------------------------
(* SpecFC: engine A sends one multi-frame payload to a peer that answers   *)
(* with flow control frames of its choice, at any time. Claims C15..C18.   *)

FCLens == {20, 34}      \* a first frame and 2 or 4 consecutive frames
FCBlockSizes == {0, 1, 2}
FCSTmins == {0, 10}
FC(fs, bs, st) == << FLOW_CONTROL_FRAME * 16 + fs, bs, st >>
FCFrames ==
    { FC(CONTINUE_TO_SEND, bs, st) : bs \in FCBlockSizes, st \in FCSTmins }
    \cup { FC(WAIT, 0, 0), FC(OVERFLOW, 0, 0) }

InitFC ==
    /\ \E wft \in {0, 1} : InitWith(16, 0, wft, FALSE)
    /\ script = [NewScript EXCEPT !.log_fed = TRUE, !.log_sender = TRUE]

\* The user writes the payload of the run.
FCWrite ==
    /\ writes["A"] = << >>
    /\ \E n \in FCLens : Write("A", Payload(1, n))

\* The peer sends a flow control frame.
FCInject ==
    /\ writes["A"] # << >>
    /\ script.injects < MaxFC
    /\ \E data \in FCFrames : Inject("A", data)

NextFC ==
    \/ FCWrite
    \/ FCInject
    \/ RunSendCfs("A")

SpecFC == InitFC /\ [][NextFC]_vars

FlowStatus(data) == data[1] % 16
IsCTS(data) ==
    PciType(data) = FLOW_CONTROL_FRAME /\ FlowStatus(data) = CONTINUE_TO_SEND

\* C15: while a multi-frame payload is at the head of the send queue, at
\* most one _send_cfs callback is pending on the loop, also when an
\* FC(CONTINUE_TO_SEND) arrives while one is pending.
OneBurst ==
    transports["A"].send_queue # << >> => Len(loop.timers["A"]) <= 1

\* The sender awaits flow control when the i-th frame is fed: a payload is
\* at the head of the queue, its first frame or a whole block is out, and
\* no _send_cfs is pending.
AwaitingFC(log, i) ==
    /\ log[i].queue > 0
    /\ log[i].block_count = 0
    /\ log[i].timers = 0

\* The frames on the bus when the first FC(CONTINUE_TO_SEND) after the i-th
\* frame fed arrived, or now if there was none.
LastCTS(log, i) == \A j \in (i + 1)..Len(log) : ~IsCTS(log[j].data)
WindowEnd(log, i) ==
    IF LastCTS(log, i) THEN Len(bus.sent)
    ELSE log[CHOOSE j \in (i + 1)..Len(log) :
                 /\ IsCTS(log[j].data)
                 /\ \A k \in (i + 1)..(j - 1) : ~IsCTS(log[k].data)].before

\* C16: after an FC(CONTINUE_TO_SEND, bs, stmin) received while awaiting flow
\* control, the sender emits at most bs CFs until the next
\* FC(CONTINUE_TO_SEND) when bs # 0 (bs of them, or the rest of the payload,
\* once no callback is pending), and all remaining CFs when bs = 0.
SenderBlocks ==
    \A i \in DOMAIN fed["A"] :
        LET log == fed["A"]
            bs == log[i].data[2]
            cfs == WindowEnd(log, i) - log[i].before
            done == WireBytes("A") = Written("A")
        IN (IsCTS(log[i].data) /\ AwaitingFC(log, i)) =>
               /\ log[i].exc = "none"
               /\ bs # 0 => cfs <= bs
               /\ (LastCTS(log, i) /\ loop.timers["A"] = << >>) =>
                      IF bs = 0 THEN done ELSE (cfs = bs \/ done)

\* A block of two CFs, then the rest of the payload in one burst.
SenderBlocksWitness ==
    /\ Len(writes["A"]) = 1
    /\ Len(writes["A"][1].payload) = 34
    /\ Len(fed["A"]) = 2
    /\ fed["A"][1].data = FC(CONTINUE_TO_SEND, 2, 10)
    /\ fed["A"][2].data = FC(CONTINUE_TO_SEND, 0, 0)
    /\ fed["A"][2].before = 3
    /\ AwaitingFC(fed["A"], 2)
    /\ loop.timers["A"] = << >>
    /\ WireBytes("A") = Written("A")

IsOverflow(data) ==
    PciType(data) = FLOW_CONTROL_FRAME /\ FlowStatus(data) = OVERFLOW

\* C17: after an FC(OVERFLOW) received during the send of the payload, the
\* sender puts no further frame of it on the bus, whatever arrives later.
OverflowAborts ==
    \A i \in DOMAIN fed["A"] :
        (IsOverflow(fed["A"][i].data) /\ fed["A"][i].queue > 0) =>
            Len(bus.sent) = fed["A"][i].before

\* C17 for a sender that awaits flow control and gets no
\* FC(CONTINUE_TO_SEND) afterwards.
OverflowStops ==
    \A i \in DOMAIN fed["A"] :
        (/\ IsOverflow(fed["A"][i].data)
         /\ AwaitingFC(fed["A"], i)
         /\ LastCTS(fed["A"], i)) =>
            Len(bus.sent) = fed["A"][i].before

\* C18: the FC(CONTINUE_TO_SEND, bs, stmin) just handled has left block size
\* bs, STmin stmin and a wait frame count of 0 in the sender.
CTSStoresAndResets ==
    [][ (Len(fed'["A"]) > Len(fed["A"]) /\ IsCTS(fed'["A"][Len(fed'["A"])].data)) =>
          LET data == fed'["A"][Len(fed'["A"])].data IN
          /\ transports'["A"].send_block_size = PyInt(data[2])
          /\ transports'["A"].send_st_min = PyInt(data[3])
          /\ transports'["A"].send_wf_count = 0 ]_vars

\* C18 without the wait frame count.
CTSStores ==
    [][ (Len(fed'["A"]) > Len(fed["A"]) /\ IsCTS(fed'["A"][Len(fed'["A"])].data)) =>
          LET data == fed'["A"][Len(fed'["A"])].data IN
          /\ transports'["A"].send_block_size = PyInt(data[2])
          /\ transports'["A"].send_st_min = PyInt(data[3]) ]_vars

-----------------------------------------------------------------------------
(* SpecSTmin: engine A sends a payload and the peer answers its first      *)
(* frame with FC(CONTINUE_TO_SEND, 0, v) for any byte v; the waits handed  *)
(* to call_later are those of _get_wait_time. Times are in nanoseconds.    *)
(* Claim C19.                                                              *)

\* No _clock_resolution, 1 ns, 1 ms, 15.625 ms.
STResolutions == {PyNone, PyInt(1), PyInt(1000000), PyInt(15625000)}

InitSTmin ==
    /\ \E res \in STResolutions : InitLoop(16, 0, 0, FALSE, res)
    /\ script = [NewScript EXCEPT !.log_fed = TRUE]

STWrite ==
    /\ writes["A"] = << >>
    /\ Write("A", Payload(1, 34))

STFlow ==
    /\ writes["A"] # << >>
    /\ fed["A"] = << >>
    /\ \E v \in 0..255 : Inject("A", FC(CONTINUE_TO_SEND, 0, v))

NextSTmin ==
    \/ STWrite
    \/ STFlow
    \/ RunSendCfs("A")

SpecSTmin == InitSTmin /\ [][NextSTmin]_vars

\* The separation time byte v means, in microseconds:
STminMicros(v) ==
    IF v <= 127 THEN v * 1000
    ELSE IF 241 <= v /\ v <= 249 THEN (v - 240) * 100
    ELSE 127000

\* The wait between CFs for byte v on a loop of clock resolution res, in
\* nanoseconds: the decoded time, raised to the resolution plus 1 ms when
\* it is not 0.
STminWait(v, res) ==
    LET d == STminMicros(v) * 1000 IN
    IF d > 0 /\ res.kind = "int" THEN Max(d, res.val + 1000000) ELSE d

\* Every _send_cfs pending was scheduled with wait(v, res).
WaitsAre(wait(_, _)) ==
    \A i \in DOMAIN loop.timers["A"] :
        loop.timers["A"][i] = wait(fed["A"][1].data[3], loop.clock_resolution)

\* C19: 0x00..0x7F is v ms, 0xF1..0xF9 is (v - 0xF0) * 100 us, every other
\* value 127 ms, and a wait that is not 0 is at least the clock resolution
\* plus 1 ms.
STminDecoding == WaitsAre(STminWait)

\* C19 for the bytes outside 0xF1..0xF9.
STminDecodingMs ==
    (fed["A"] # << >> /\ fed["A"][1].data[3] \notin 241..249)
        => WaitsAre(STminWait)

\* C19 for the lower bound of the wait.
STminClamp ==
    \A i \in DOMAIN loop.timers["A"] :
        (loop.timers["A"][i] > 0 /\ loop.clock_resolution.kind = "int") =>
            loop.timers["A"][i] >= loop.clock_resolution.val + 1000000

-----------------------------------------------------------------------------
(* Claim C20, under SpecRecv. *)

\* The first frame just fed arrived during a reassembly.
FirstFrameInProgress ==
    /\ Len(fed'["A"]) > Len(fed["A"])
    /\ PciType(fed'["A"][Len(fed'["A"])].data) = FIRST_FRAME
    /\ InProgress(fed'["A"], Len(fed'["A"]))

\* It has left the receiver with its own payload bytes alone, sequence
\* number 1, block count 0, and one FC(CONTINUE_TO_SEND) on the bus.
RestartedBy(data) ==
    /\ exc' = "none"
    /\ transports'["A"].recv_buffer = FramePayload(data)
    /\ transports'["A"].recv_seq_no = 1
    /\ transports'["A"].recv_block_count = 0
    /\ bus'.sent = Append(bus.sent,
           Message(Txid("A"), FC(CONTINUE_TO_SEND, transports["A"].block_size,
                                 transports["A"].st_min)))

\* A message fed whole and in order from a first frame that arrived during
\* a reassembly is delivered as it was sent.
NewMessageAlone ==
    \A i \in DOMAIN fed["A"], m \in PeerMsgs :
        (/\ m.total <= Len(m.frames)
         /\ Follows(fed["A"], i, m, m.total)
         /\ InProgress(fed["A"], i - m.total + 1))
            => Reassembled(fed["A"], i, m, m.total)

\* C20: a first frame received during a reassembly discards the partial
\* buffer, sets the sequence number to 1 and the block count to 0 and sends
\* one FC(CONTINUE_TO_SEND); the payload delivered for it has the bytes of
\* the new message only.
OneReassembly ==
    /\ [][ FirstFrameInProgress =>
               RestartedBy(fed'["A"][Len(fed'["A"])].data) ]_vars
    /\ []NewMessageAlone

OneReassemblyWitness ==
    /\ Len(fed["A"]) = 5
    /\ fed["A"][1].data = LongMsg.frames[1]
    /\ fed["A"][2].data = LongMsg.frames[2]
    /\ Follows(fed["A"], 5, LongMsg, 3)
    /\ fed["A"][3].sent = 1
    /\ protocols["A"].data_received = << LongMsg.payload >>

-----------------------------------------------------------------------------
(* Claim C21, under SpecRecv. *)

\* C21: after a CF with a wrong sequence nibble was rejected during a
\* reassembly, the CFs that follow deliver nothing until a first frame or a
\* single frame starts a new message.
SequenceErrorFatal ==
    \A i \in DOMAIN fed["A"], j \in DOMAIN fed["A"] :
        (/\ i < j
         /\ WrongSequence(fed["A"], i)
         /\ InProgress(fed["A"], i)
         /\ \A k \in (i + 1)..j :
                PciType(fed["A"][k].data) = CONSECUTIVE_FRAME)
            => fed["A"][j].delivered = DeliveredBefore(fed["A"], j)

-----------------------------------------------------------------------------
(* Claim C22, under SpecFC: flow control frames that arrive when the       *)
(* payload of the run is out and the send queue is empty again.            *)

\* C22: an FC(CONTINUE_TO_SEND) fed to an engine whose send queue is empty
\* raises no error and puts no frame on the bus.
IdleFCHarmless ==
    \A i \in DOMAIN fed["A"] :
        (IsCTS(fed["A"][i].data) /\ fed["A"][i].queue = 0) =>
            /\ fed["A"][i].exc = "none"
            /\ fed["A"][i].sent = 0

\* C22 for the bus alone.
IdleFCSilent ==
    \A i \in DOMAIN fed["A"] :
        (IsCTS(fed["A"][i].data) /\ fed["A"][i].queue = 0) =>
            fed["A"][i].sent = 0

-----------------------------------------------------------------------------
(* Claims C23 and C24, under Spec. *)

\* The write a payload byte of the model comes from (Payload).
WriteOf(byte) == byte \div 64

\* C23: every CF engine A has put on the bus carries bytes of a payload
\* whose first frame is on the bus before it.
FirstFrameFirst ==
    LET fs == SentBy("A") IN
    \A k \in DOMAIN fs :
        (PciType(fs[k]) = CONSECUTIVE_FRAME /\ Len(fs[k]) > 1) =>
            \E j \in 1..(k - 1) :
                /\ PciType(fs[j]) = FIRST_FRAME
                /\ WriteOf(fs[j][3]) = WriteOf(fs[k][2])

\* The calls of pause_writing and resume_writing alternate, pause_writing
\* first.
Alternate(flow) ==
    \A i \in DOMAIN flow : flow[i] = (IF i % 2 = 1 THEN "pause" ELSE "resume")

\* The protocol is paused exactly when the send queue is not empty.
PausedWhileQueued ==
    LET p == protocols["A"] IN
    /\ Alternate(p.flow)
    /\ p.pause_writing - p.resume_writing \in {0, 1}
    /\ p.pause_writing - p.resume_writing = 1
           <=> transports["A"].send_queue # << >>

\* When the protocol is not paused, which is the state every call of
\* resume_writing leaves, nothing is queued and every byte written is on
\* the wire.
DoneWhenResumed ==
    protocols["A"].pause_writing = protocols["A"].resume_writing =>
        /\ transports["A"].send_queue = << >>
        /\ WireBytes("A") = Written("A")

\* C24: pause_writing and resume_writing alternate, pause_writing first;
\* the calls of pause_writing exceed those of resume_writing by 1 when the
\* send queue is not empty and by 0 when it is; resume_writing is not called
\* while a payload is queued or partly sent.
FlowControlOfWriter == PausedWhileQueued /\ DoneWhenResumed

\* Two payloads, the second written after the first was out.
FlowControlOfWriterWitness ==
    /\ protocols["A"].flow = << "pause", "resume", "pause", "resume" >>
    /\ Len(writes["A"]) = 2
    /\ Len(writes["A"][1].payload) = 20
    /\ Len(writes["A"][2].payload) = 20
    /\ WireBytes("A") = Written("A")

====
